---------------------------- MODULE Spec2Model ----------------------------
(***************************************************************************)
(* Rental-car scrapers (dubizzle.py = site "A", invygo.py = site "B"):     *)
(* retry controller, catalog filter, interactive detail extractor, task    *)
(* orchestration under a slot pool, and merge / sort of the final table.   *)
(***************************************************************************)
EXTENDS Integers, Sequences, FiniteSets, TLC

(***************************************************************************)
(* Program constants (CONFIG of both scrapers).                            *)
(***************************************************************************)
max_retries == 3
semaphore_limit == 5

(***************************************************************************)
(* Bounds of the model.                                                    *)
(***************************************************************************)
MaxCards == 2
MaxCat == 2
MaxItems == 2
MaxControls == 2
MaxMileage == 2
NumPool == 6

Null == "null"

VARIABLES
  \* Catalog Filter applied to one listing scrape
  f_pc, f_site, f_main, f_config, f_filtered,
  \* one call of a retry-wrapped scrape function
  r_fn, r_pc, r_attempt, r_wait, r_attempts, r_sleeps, r_items, r_err,
  r_loaded, r_cards, r_rows, r_warnings,
  p_fn, p_pc, p_tries, p_checks, p_result,
  \* one scheduled run of the outer scheduler (auto_scraper.py)
  s_pc, s_catalog, s_files, s_started, s_active, s_exits, s_executed,
  s_mail, s_attached, s_fatal, s_job,
  \* the tier controls of one interactive (site B) detail page; d_origin[k] is
  \* the control during whose processing offer k was appended
  d_pc, d_controls, d_index, d_seen, d_enriched, d_origin, d_output,
  \* one run of a scraper.  The world: which script runs ("A": dubizzle.py,
  \* "B": invygo.py), the catalog, the cards each
  \* task's listing page shows and what each detail page holds
  script, config, listing_page, detail_page,
  \* the slot pool and the tasks (scrape_task / scrape_mode), one per index
  sem, waiters, pc, page, handle, filtered, idx, enriched, failed, navigated, ret, result, flushed,
  \* main
  mainpc, status, main_df, output, browser, exit_status

filterVars == <<f_pc, f_site, f_main, f_config, f_filtered>>
retryVars == <<r_fn, r_pc, r_attempt, r_wait, r_attempts, r_sleeps, r_items, r_err,
               r_loaded, r_cards, r_rows, r_warnings>>
detailVars == <<d_pc, d_controls, d_index, d_seen, d_enriched, d_origin, d_output>>
worldVars == <<script, config, listing_page, detail_page>>
taskVars == <<sem, waiters, pc, page, handle, filtered, idx, enriched, failed, navigated,
              ret, result, flushed>>
mainVars == <<mainpc, status, main_df, output, browser, exit_status>>
runVars == <<worldVars, taskVars, mainVars>>
pollVars == <<p_fn, p_pc, p_tries, p_checks, p_result>>
schedVars == <<s_pc, s_catalog, s_files, s_started, s_active, s_exits, s_executed,
               s_mail, s_attached, s_fatal, s_job>>
vars == <<filterVars, retryVars, detailVars, runVars, pollVars, schedVars>>

(***************************************************************************)
(* The parts of the state a specification does not use stay idle.          *)
(***************************************************************************)
IdleSched ==
  /\ s_pc = "idle"
  /\ s_catalog = TRUE
  /\ s_files = {}
  /\ s_started = <<>>
  /\ s_active = {}
  /\ s_exits = <<>>
  /\ s_executed = <<>>
  /\ s_mail = "none"
  /\ s_attached = <<>>
  /\ s_fatal = FALSE
  /\ s_job = 0

IdlePoll ==
  /\ p_fn = "A_listing"
  /\ p_pc = "idle"
  /\ p_tries = 0
  /\ p_checks = 0
  /\ p_result = "null"

IdleFilter ==
  /\ f_pc = "idle"
  /\ f_site = "A"
  /\ f_main = <<>>
  /\ f_config = <<>>
  /\ f_filtered = <<>>

IdleRetry ==
  /\ r_fn = "A_listing"
  /\ r_pc = "idle"
  /\ r_attempt = 0
  /\ r_wait = Null
  /\ r_attempts = 0
  /\ r_sleeps = 0
  /\ r_items = 0
  /\ r_err = Null
  /\ r_loaded = FALSE
  /\ r_cards = <<>>
  /\ r_rows = <<>>
  /\ r_warnings = 0

IdleDetail ==
  /\ d_pc = "idle"
  /\ d_controls = <<>>
  /\ d_index = 0
  /\ d_seen = {}
  /\ d_enriched = <<>>
  /\ d_origin = <<>>
  /\ d_output = <<>>

IdleRun ==
  /\ script = "A"
  /\ config = <<>>
  /\ listing_page = <<>>
  /\ detail_page = <<>>
  /\ sem = 0
  /\ waiters = <<>>
  /\ pc = <<>>
  /\ page = <<>>
  /\ filtered = <<>>
  /\ idx = <<>>
  /\ enriched = <<>>
  /\ failed = <<>>
  /\ ret = <<>>
  /\ result = <<>>
  /\ handle = <<>>
  /\ navigated = <<>>
  /\ flushed = <<>>
  /\ mainpc = "idle"
  /\ status = "none"
  /\ main_df = <<>>
  /\ output = <<>>
  /\ browser = "none"
  /\ exit_status = <<>>

SeqsUpTo(S, n) == UNION {[1..k -> S] : k \in 0..n}

(***************************************************************************)
(* Strings are sequences of characters, so that str.upper() and the        *)
(* hyphen rewriting are computed and not assumed.                          *)
(***************************************************************************)
UpperChar(c) ==
  CASE c = "a" -> "A"
    [] c = "b" -> "B"
    [] c = "n" -> "N"
    [] OTHER -> c

str_upper(s) == [i \in DOMAIN s |-> UpperChar(s[i])]

\* lambda x: x.replace('-', ' ') if '-' in x else x
hyphen_to_space(s) == [i \in DOMAIN s |-> IF s[i] = "-" THEN " " ELSE s[i]]

(***************************************************************************)
(* astype(str) of the year column.  The text depends on the dtype pandas   *)
(* gave the column: ints only -> int64, 2022 prints as "2022"; ints and    *)
(* missing values -> float64, 2022 prints as "2022.0" and the missing      *)
(* value as "nan"; a column of None only, built from dicts, stays object   *)
(* and prints "None" (read_csv makes it float64).  <<"int", y>> stands for *)
(* "2022", <<"float", y>> for "2022.0"; a year value is "2022" or Null.    *)
(***************************************************************************)
AllNullYear(rows) == \A i \in DOMAIN rows : rows[i].year = Null
HasNullYear(rows) == \E i \in DOMAIN rows : rows[i].year = Null

\* dtype of the "year" column of pd.DataFrame(data), data a list of dicts
listing_year_dtype(rows) ==
  IF ~HasNullYear(rows) THEN "int64"
  ELSE IF AllNullYear(rows) THEN "object" ELSE "float64"

\* dtype of the "year" column of pd.read_csv(config_path, ...)
config_year_dtype(rows) == IF HasNullYear(rows) THEN "float64" ELSE "int64"

year_astype_str(y, dtype) ==
  IF y = Null
    THEN (IF dtype = "object" THEN <<"N", "o", "n", "e">> ELSE <<"n", "a", "n">>)
    ELSE (IF dtype = "float64" THEN <<"float", y>> ELSE <<"int", y>>)

IsNumberText(s) == s[1] \in {"int", "float"}

\* .str.upper() of a year text: digits and the point are unchanged
year_str_upper(s) == IF IsNumberText(s) THEN s ELSE str_upper(s)

\* pd.to_numeric(..., errors="coerce").astype("Int64") of a year text
year_to_numeric(s) == IF IsNumberText(s) THEN s[2] ELSE Null

(***************************************************************************)
(* Catalog Filter: scrape_task / scrape_mode, "Filter results based on     *)
(* configuration".  A listing row is [url, make, model, year, mode]; a     *)
(* catalog row is [make, model, year].  Site A rewrites hyphens of the     *)
(* catalog model to spaces (the listing side is not rewritten); site B     *)
(* rewrites nothing.                                                       *)
(***************************************************************************)
config_model_alias(site, m) == IF site = "A" THEN hyphen_to_space(m) ELSE m

config_norm(site, cfg) ==
  [j \in DOMAIN cfg |->
     [make  |-> str_upper(cfg[j].make),
      model |-> str_upper(config_model_alias(site, cfg[j].model)),
      year  |-> year_str_upper(year_astype_str(cfg[j].year, config_year_dtype(cfg)))]]

df_norm(df_main) ==
  [i \in DOMAIN df_main |->
     [df_main[i] EXCEPT
        !.make  = str_upper(@),
        !.model = str_upper(@),
        !.year  = year_str_upper(year_astype_str(@, listing_year_dtype(df_main)))]]

\* a join on make and model only
merge_cols_equal_no_year(l, r) == l.make = r.make /\ l.model = r.model

\* merge_cols = ["make", "model", "year"]
merge_cols_equal(l, r) == l.make = r.make /\ l.model = r.model /\ l.year = r.year

\* the rows one left row contributes to an inner merge: one per matching right row
RECURSIVE InnerRows(_, _, _)
InnerRows(l, right, j) ==
  IF j > Len(right) THEN <<>>
  ELSE (IF merge_cols_equal(l, right[j]) THEN <<l>> ELSE <<>>)
         \o InnerRows(l, right, j + 1)

\* df_norm.merge(config_norm, on=merge_cols, how="inner"): left order kept
RECURSIVE InnerMerge(_, _, _)
InnerMerge(left, right, i) ==
  IF i > Len(left) THEN <<>>
  ELSE InnerRows(left[i], right, 1) \o InnerMerge(left, right, i + 1)

CatalogFilter(site, df_main, cfg) ==
  LET merged == InnerMerge(df_norm(df_main), config_norm(site, cfg), 1)
  IN  [k \in DOMAIN merged |-> [merged[k] EXCEPT !.year = year_to_numeric(@)]]

(***************************************************************************)
(* Names, years and the pools the inputs are drawn from.                   *)
(***************************************************************************)
nm_ab == <<"a", "b">>
nm_AB == <<"A", "B">>
nm_a_b == <<"a", "-", "b">>
nm_a_sp_b == <<"a", " ", "b">>
nm_b == <<"b">>

Sites == {"A", "B"}

\* (make, model, year) of the cards a listing page may show
CardPool ==
  { [make |-> nm_ab, model |-> nm_a_sp_b, year |-> "2022"],
    [make |-> nm_AB, model |-> nm_a_b,    year |-> "2022"],
    [make |-> nm_b,  model |-> nm_ab,     year |-> "2022"],
    [make |-> nm_ab, model |-> nm_a_sp_b, year |-> Null] }

\* rows of config/make_model.csv
ConfigPool ==
  { [make |-> nm_AB, model |-> nm_a_b,    year |-> "2022"],
    [make |-> nm_ab, model |-> nm_a_sp_b, year |-> "2022"],
    [make |-> nm_b,  model |-> nm_b,      year |-> "2021"],
    [make |-> nm_ab, model |-> nm_a_b,    year |-> Null] }

card_camry == [make |-> nm_ab, model |-> nm_a_sp_b, year |-> "2022"]
card_civic == [make |-> nm_b, model |-> nm_ab, year |-> "2022"]

ModeOf(site) == IF site = "A" THEN Null ELSE "weekly"

\* the listing rows of a page: card i has sub-url i
ListingRows(site, cards) ==
  [i \in DOMAIN cards |->
     [url |-> i, make |-> cards[i].make, model |-> cards[i].model,
      year |-> cards[i].year, mode |-> ModeOf(site)]]

(***************************************************************************)
(* Retry Controller: the for/try/except of scrape_dubizzle_car_data_async, *)
(* scrape_dubizzle_detail_async, scrape_invygo_car_data_async and          *)
(* scrape_invygo_detail_async.  One attempt is navigate, wait for ready,   *)
(* extract.  An attempt input says what the page did: whether goto         *)
(* returned, whether the readiness poll found its marker, how many items   *)
(* (cards, contract types, tier controls) the page held and how many of    *)
(* them were extracted without an error.                                   *)
(***************************************************************************)
RetryFns == {"A_listing", "A_detail", "B_listing", "B_detail"}
ListingFns == {"A_listing", "B_listing"}

\* CONFIG["wait_conditions"]
wait_conditions == {"domcontentloaded", "load", "networkidle"}

AttemptInputs ==
  { in \in [nav : BOOLEAN, ready : BOOLEAN, found : 0..MaxItems, good : 0..MaxItems] :
      in.good <= in.found }

\* an attempt that one skipped card fails
attempt_error_on_bad_card(fn, in) ==
  IF ~in.nav THEN "NavigationFailure"
  ELSE IF ~in.ready THEN "ContentNotReady"
  ELSE IF fn \in ListingFns /\ in.good < in.found THEN "ExtractionFailure"
  ELSE IF fn \in ListingFns /\ in.found = 0 THEN "ExtractionFailure"
  ELSE IF fn = "A_detail" /\ in.found = 0 THEN "ExtractionFailure"
  ELSE Null

\* the exception the attempt body raises, or Null
attempt_error(fn, in) ==
  IF ~in.nav THEN "NavigationFailure"
  ELSE IF ~in.ready THEN "ContentNotReady"
  ELSE IF fn \in ListingFns /\ in.found = 0 THEN "ExtractionFailure"
  ELSE IF fn = "A_detail" /\ in.found = 0 THEN "ExtractionFailure"
  ELSE Null

\* len(data) / len(enriched) / len(enriched_data) of a returning attempt
attempt_items(fn, in) == IF fn = "A_detail" THEN in.found ELSE in.good

\* an except clause that retries once more than max_retries allows
retry_step_off_by_one(attempt, err) ==
  IF err = Null THEN "return"
  ELSE IF attempt = max_retries THEN "raise"
  ELSE "sleep"

\* an except clause without the re-raise of the last attempt
retry_step_no_raise(attempt, err) ==
  IF err = Null THEN "return"
  ELSE "sleep"

\* what follows an attempt: return, re-raise, or sleep retry_delay
retry_step(attempt, err) ==
  IF err = Null THEN "return"
  ELSE IF attempt = max_retries - 1 THEN "raise"
  ELSE "sleep"

InitRetry ==
  /\ IdleFilter
  /\ IdleDetail
  /\ IdleRun
  /\ IdlePoll
  /\ IdleSched
  /\ r_fn \in RetryFns
  /\ r_pc = "attempt"
  /\ r_attempt = 0
  /\ r_wait = Null
  /\ r_attempts = 0
  /\ r_sleeps = 0
  /\ r_items = 0
  /\ r_err = Null
  /\ r_loaded = FALSE
  /\ r_cards = <<>>
  /\ r_rows = <<>>
  /\ r_warnings = 0

\* what the processing of a detected card does: it appends a record, it
\* throws (caught, logged as a warning, continue), or the card lacks its info
\* block (site B: continue without a log entry)
card_kinds(fn) == IF fn = "B_listing" THEN {"ok", "throws", "no_info"} ELSE {"ok", "throws"}

\* the detected cards of a listing page with in.found cards, in.good of them good
PageCards(fn, in) ==
  IF fn \in ListingFns
    THEN { cs \in [1..in.found -> card_kinds(fn)] :
             Cardinality({i \in 1..in.found : cs[i] = "ok"}) = in.good }
    ELSE {<<>>}

\* "for card in car_cards": the positions of the cards appended to data, in
\* page order, and the number of warnings logged
RECURSIVE extract_cards(_, _)
extract_cards(cards, i) ==
  IF i > Len(cards) THEN [rows |-> <<>>, warnings |-> 0]
  ELSE LET rest == extract_cards(cards, i + 1)
       IN  [rows |-> (IF cards[i] = "ok" THEN <<i>> ELSE <<>>) \o rest.rows,
            warnings |-> (IF cards[i] = "throws" THEN 1 ELSE 0) + rest.warnings]

\* one pass through the try block and, on an exception, the except block
RetryAttempt ==
  /\ r_pc = "attempt"
  /\ \E w \in wait_conditions, in \in AttemptInputs :
       LET err == attempt_error(r_fn, in)
           step == retry_step(r_attempt, err)
           loaded == in.nav /\ in.ready
       IN  /\ r_wait' = w
           /\ r_loaded' = loaded
           /\ \E cards \in PageCards(r_fn, in) :
                LET data == extract_cards(cards, 1)
                IN  /\ r_cards' = IF loaded THEN cards ELSE <<>>
                    /\ r_warnings' = IF loaded THEN data.warnings ELSE 0
                    /\ r_rows' = IF loaded /\ step = "return" THEN data.rows ELSE <<>>
           /\ r_attempts' = r_attempts + 1
           /\ r_err' = err
           /\ r_items' = IF step = "return" THEN attempt_items(r_fn, in) ELSE r_items
           /\ r_sleeps' = IF step = "sleep" THEN r_sleeps + 1 ELSE r_sleeps
           /\ r_pc' = CASE step = "return" -> "returned"
                        [] step = "raise" -> "raised"
                        [] OTHER -> "sleeping"
  /\ UNCHANGED <<r_fn, r_attempt>>
  /\ UNCHANGED <<filterVars, detailVars, runVars, pollVars, schedVars>>

\* asyncio.sleep(CONFIG["retry_delay"]) returns; next iteration of the for
RetryWake ==
  /\ r_pc = "sleeping"
  /\ r_attempt' = r_attempt + 1
  /\ r_pc' = IF r_attempt + 1 < max_retries THEN "attempt" ELSE "fell_through"
  /\ UNCHANGED <<r_fn, r_wait, r_attempts, r_sleeps, r_items, r_err,
                 r_loaded, r_cards, r_rows, r_warnings>>
  /\ UNCHANGED <<filterVars, detailVars, runVars, pollVars, schedVars>>

NextRetry == RetryAttempt \/ RetryWake

SpecRetry == InitRetry /\ [][NextRetry]_vars

(* C3: a retry-wrapped scrape makes at most 3 attempts and sleeps the retry
   delay exactly (attempts - 1) times: after each failed attempt except the
   last one performed, never after a successful attempt and never after the
   third failure. *)
C3_RetryBound ==
  /\ r_attempts <= 3
  /\ r_pc \in {"returned", "raised"} => r_sleeps = r_attempts - 1
  /\ r_pc = "sleeping" => r_sleeps = r_attempts /\ r_attempts < 3
  /\ r_pc = "attempt" => r_sleeps = r_attempts
  /\ r_pc = "raised" => r_attempts = 3 /\ r_err # Null
  /\ r_pc # "fell_through"

C3_Witness == r_pc = "raised" /\ r_attempts = 3 /\ r_sleeps = 2

(***************************************************************************)
(* Interactive Detail Extractor: the per-control loop of                   *)
(* scrape_invygo_detail_async.  A control is what one pricing-tier control *)
(* does when activated: its duration label, where its processing throws    *)
(* ("click": before the label is read; "price": after the label was added  *)
(* to seen_durations) and how many mileage options the panel then lists.   *)
(***************************************************************************)
DurationLabels == {"1 month", "3 months", "12 months"}
ControlFails == {"none", "click", "price"}

ControlPool == [label : DurationLabels, fail : ControlFails, nmil : 0..MaxMileage]

\* int(clean_price(price_tag.get_text())) of the panel showing a duration
panel_price(label) == IF label = "1 month" THEN 3000 ELSE 2700

\* extract_numeric of the control's savings note
control_savings(label) == IF label = "1 month" THEN 0 ELSE 300

\* extract_numeric of the note of mileage option k
mileage_numeric(k) == (k - 1) * 100

\* the dicts appended for one control: one per mileage option
control_offers(url, c) ==
  [k \in 1..c.nmil |->
     [url |-> url, duration |-> c.label, savings |-> control_savings(c.label),
      offered_price |-> panel_price(c.label), mileage |-> k,
      mileage_numeric |-> mileage_numeric(k)]]

\* a check that never finds the label
never_seen(label, seen) == FALSE

\* if duration_text in seen_durations: continue
already_seen(label, seen) == label \in seen

\* one iteration of "for index in range(len(duration_elements))"
detail_control(st, url, c) ==
  IF c.fail = "click" THEN st
  ELSE IF already_seen(c.label, st.seen) THEN st
  ELSE IF c.fail = "price" THEN [st EXCEPT !.seen = @ \cup {c.label}]
  ELSE [seen |-> st.seen \cup {c.label},
        enriched |-> st.enriched \o control_offers(url, c)]

\* the whole loop, from control i on
RECURSIVE detail_loop(_, _, _, _)
detail_loop(st, url, controls, i) ==
  IF i > Len(controls) THEN st
  ELSE detail_loop(detail_control(st, url, controls[i]), url, controls, i + 1)

invygo_detail_offers(url, controls) ==
  detail_loop([seen |-> {}, enriched |-> <<>>], url, controls, 1).enriched

InitDetail ==
  /\ IdleFilter
  /\ IdleRetry
  /\ IdleRun
  /\ IdlePoll
  /\ IdleSched
  /\ d_pc = "loop"
  /\ d_controls \in SeqsUpTo(ControlPool, MaxControls)
  /\ d_index = 1
  /\ d_seen = {}
  /\ d_enriched = <<>>
  /\ d_origin = <<>>
  /\ d_output = <<>>

DetailControl ==
  /\ d_pc = "loop"
  /\ d_index <= Len(d_controls)
  /\ LET st == detail_control([seen |-> d_seen, enriched |-> d_enriched], 1, d_controls[d_index])
     IN  /\ d_seen' = st.seen
         /\ d_enriched' = st.enriched
         /\ d_origin' = d_origin \o [k \in 1..(Len(st.enriched) - Len(d_enriched)) |-> d_index]
  /\ d_index' = d_index + 1
  /\ UNCHANGED <<d_pc, d_controls, d_output>>
  /\ UNCHANGED <<filterVars, retryVars, runVars, pollVars, schedVars>>

\* return enriched_data
DetailReturn ==
  /\ d_pc = "loop"
  /\ d_index > Len(d_controls)
  /\ d_pc' = "returned"
  /\ UNCHANGED <<d_controls, d_index, d_seen, d_enriched, d_origin, d_output>>
  /\ UNCHANGED <<filterVars, retryVars, runVars, pollVars, schedVars>>

OffersOf(label) == {k \in DOMAIN d_enriched : d_enriched[k].duration = label}

\* control i got as far as reading its label
ReadsLabel(i) == d_controls[i].fail # "click"

(* C9 as stated: duplicate duration labels on one detail page yield at most
   one ContractOffer for that label. *)
C9_OneOfferPerLabel ==
  d_pc = "returned" =>
    \A label \in DurationLabels :
      (\E i, j \in DOMAIN d_controls :
          /\ i # j
          /\ ReadsLabel(i) /\ d_controls[i].label = label
          /\ ReadsLabel(j) /\ d_controls[j].label = label)
        => Cardinality(OffersOf(label)) <= 1

(* C9 amended: the offers carrying a label all come from one control, the
   first control on which that label was read, one offer per mileage option
   then listed; a control whose label was already seen adds no offers. *)
C9_OneControlPerLabel ==
  \A label \in DurationLabels :
    /\ \A a, b \in OffersOf(label) : d_origin[a] = d_origin[b]
    /\ \A a \in OffersOf(label) :
         /\ d_controls[d_origin[a]].label = label
         /\ Cardinality(OffersOf(label)) = d_controls[d_origin[a]].nmil
         /\ \A i \in 1..(d_origin[a] - 1) :
              ~(ReadsLabel(i) /\ d_controls[i].label = label)
    /\ Len(d_origin) = Len(d_enriched)

\* two controls carry the same label and the first produced two offers
C9_Witness ==
  /\ d_pc = "returned"
  /\ Len(d_controls) = 2
  /\ d_controls[1].label = d_controls[2].label
  /\ d_controls[2].fail = "none"
  /\ d_controls[2].nmil > 0
  /\ Len(d_enriched) = 2
  /\ d_origin = <<1, 1>>

(***************************************************************************)
(* Merge & Sort: main, from "Combine results" to to_excel.  A nullable     *)
(* number is <<>> (NaN) or <<n>>.  An offer of site A is                   *)
(* [url, contract, base_price]; an offer of site B is                      *)
(* [url, duration, savings, offered_price, mileage, mileage_numeric].      *)
(***************************************************************************)
NaN == <<>>
Num(n) == <<n>>

\* the leading integer of a duration label: str.extract(r"(\d+)")
duration_num(label) ==
  CASE label = "1 week" -> 1
    [] label = "1 month" -> 1
    [] label = "3 months" -> 3
    [] label = "6 months" -> 6
    [] label = "9 months" -> 9
    [] label = "12 months" -> 12

\* a derivation that leaves the mileage add-on out
derive_prices_without_mileage(site, o) ==
  IF site = "A"
    THEN [url |-> o.url, contract |-> o.contract, duration |-> Null, mileage |-> NaN,
          base_price |-> Num([num |-> o.base_price, den |-> 1]),
          savings |-> Num(0), offered_price |-> Num(o.base_price)]
    ELSE [url |-> o.url, contract |-> Null, duration |-> o.duration, mileage |-> Num(o.mileage),
          base_price |-> Num([num |-> o.savings + duration_num(o.duration) * o.offered_price,
                              den |-> duration_num(o.duration)]),
          savings |-> Num(o.savings),
          offered_price |-> Num(o.offered_price)]

\* price derivation on detail_df; a quotient is kept as [num, den]
derive_prices(site, o) ==
  IF site = "A"
    THEN [url |-> o.url, contract |-> o.contract, duration |-> Null, mileage |-> NaN,
          base_price |-> Num([num |-> o.base_price, den |-> 1]),
          savings |-> Num(0), offered_price |-> Num(o.base_price)]
    ELSE [url |-> o.url, contract |-> Null, duration |-> o.duration, mileage |-> Num(o.mileage),
          base_price |-> Num([num |-> o.savings + duration_num(o.duration)
                                        * (o.offered_price + o.mileage_numeric),
                              den |-> duration_num(o.duration)]),
          savings |-> Num(o.savings),
          offered_price |-> Num(o.offered_price + o.mileage_numeric)]

detail_df(site, detail_dicts) ==
  [k \in DOMAIN detail_dicts |-> derive_prices(site, detail_dicts[k])]

\* the offer columns of a listing no offer matches
null_offer == [contract |-> Null, duration |-> Null, mileage |-> NaN, base_price |-> NaN,
               savings |-> NaN, offered_price |-> NaN]

\* a merged row: the listing's columns and the offer's; on site B "contract"
\* is the listing's column (the mode), the offers having none
merged_row(site, l, o) ==
  [url |-> l.url, make |-> l.make, model |-> l.model, year |-> l.year,
   contract |-> IF site = "A" THEN o.contract ELSE l.mode,
   duration |-> o.duration, mileage |-> o.mileage, base_price |-> o.base_price,
   savings |-> o.savings, offered_price |-> o.offered_price]

\* a merge that keeps only the first offer of a listing
left_rows_first_match(site, l, right, j) ==
  LET hits == {k \in j..Len(right) : right[k].url = l.url}
  IN  IF hits = {} THEN <<>>
      ELSE <<merged_row(site, l, right[CHOOSE k \in hits : \A m \in hits : k <= m])>>

RECURSIVE LeftRows(_, _, _, _)
LeftRows(site, l, right, j) ==
  IF j > Len(right) THEN <<>>
  ELSE (IF right[j].url = l.url THEN <<merged_row(site, l, right[j])>> ELSE <<>>)
         \o LeftRows(site, l, right, j + 1)

\* pd.merge(main_df, detail_df, on="sub-url", how="left"): left order kept,
\* a listing without offers kept once with null offer columns
RECURSIVE LeftMerge(_, _, _, _)
LeftMerge(site, left, right, i) ==
  IF i > Len(left) THEN <<>>
  ELSE LET rows == LeftRows(site, left[i], right, 1)
       IN  (IF rows = <<>> THEN <<merged_row(site, left[i], null_offer)>> ELSE rows)
             \o LeftMerge(site, left, right, i + 1)

\* ranks in alphabetical order of the contract names
contract_rank_alphabetical(site, c) ==
  CASE c = "daily" -> 1
    [] c = "monthly" -> 2
    [] c = "weekly" -> 3
    [] OTHER -> 4

\* code of a value in CategoricalDtype(contract_order); NaN sorts last
contract_rank(site, c) ==
  IF site = "A"
    THEN CASE c = "daily" -> 1
           [] c = "weekly" -> 2
           [] c = "monthly" -> 3
           [] OTHER -> 4
    ELSE CASE c = "weekly" -> 1
           [] c = "monthly" -> 2
           [] OTHER -> 4

\* ranks in lexical order of the duration labels
duration_rank_lexical(d) ==
  CASE d = "1 month" -> 1
    [] d = "1 week" -> 2
    [] d = "3 months" -> 3
    [] d = "6 months" -> 4
    [] d = "9 months" -> 5
    [] OTHER -> 6

\* code of a value in CategoricalDtype(duration_order); NaN sorts last
duration_rank(d) ==
  CASE d = "1 week" -> 1
    [] d = "1 month" -> 2
    [] d = "3 months" -> 3
    [] d = "6 months" -> 4
    [] d = "9 months" -> 5
    [] OTHER -> 6

\* sort position of a mileage value; NaN sorts last
mileage_rank(m) == IF m = NaN THEN MaxMileage + 2 ELSE m[1]

\* CategoricalDtype(contract_order) / CategoricalDtype(duration_order)
contract_order(site) == IF site = "A" THEN {"daily", "weekly", "monthly"} ELSE {"weekly", "monthly"}
duration_order == {"1 week", "1 month", "3 months", "6 months", "9 months"}

\* Series.astype(categorical): a value that is no category becomes NaN
astype_category(value, categories) == IF value \in categories THEN value ELSE Null

\* final_df["contract"].astype(contract_order) and, on site B,
\* final_df["duration"].astype(duration_order)
cast_categories(site, r) ==
  [r EXCEPT !.contract = astype_category(@, contract_order(site)),
            !.duration = IF site = "B" THEN astype_category(@, duration_order) ELSE @]

\* by=["contract", "sub-url"] (site A), by=["contract", "sub-url", "duration", "mileage"] (site B)
sort_key(site, r) ==
  IF site = "A"
    THEN <<contract_rank(site, r.contract), r.url>>
    ELSE <<contract_rank(site, r.contract), r.url, duration_rank(r.duration), mileage_rank(r.mileage)>>

\* lexicographic a <= b of two keys of equal length
RECURSIVE KeyLeq(_, _, _)
KeyLeq(a, b, i) ==
  IF i > Len(a) THEN TRUE
  ELSE IF a[i] < b[i] THEN TRUE
  ELSE IF a[i] > b[i] THEN FALSE
  ELSE KeyLeq(a, b, i + 1)

\* insert r behind the rows whose key is not greater (stable)
RECURSIVE InsertRow(_, _, _)
InsertRow(site, r, sorted) ==
  IF sorted = <<>> THEN <<r>>
  ELSE IF KeyLeq(sort_key(site, Head(sorted)), sort_key(site, r), 1)
    THEN <<Head(sorted)>> \o InsertRow(site, r, Tail(sorted))
    ELSE <<r>> \o sorted

\* final_df.sort_values(by=...).reset_index(drop=True)
RECURSIVE sort_values(_, _, _)
sort_values(site, rows, n) ==
  IF n = 0 THEN <<>>
  ELSE InsertRow(site, rows[n], sort_values(site, rows, n - 1))

(***************************************************************************)
(* One run: main of dubizzle.py / invygo.py.                               *)
(***************************************************************************)
\* CONFIG["modes"]
modes == <<"weekly", "monthly">>

\* config.drop_duplicates(subset=["make", "dubizzle_model"]), rows i.. of cfg
RECURSIVE unique_config(_, _)
unique_config(cfg, i) ==
  IF i > Len(cfg) THEN <<>>
  ELSE (IF \E j \in 1..(i - 1) : cfg[j].make = cfg[i].make /\ cfg[j].model = cfg[i].model
          THEN <<>> ELSE <<cfg[i]>>)
         \o unique_config(cfg, i + 1)

\* tasks = [scrape_task(...) for ... in unique_config.iterrows()] / [scrape_mode(mode) ...]
task_count(s, cfg) == IF s = "A" THEN Len(unique_config(cfg, 1)) ELSE Len(modes)

Tasks == 1..task_count(script, config)

\* extract_numeric(price) of the h5 rental-price-<contract>
base_price_of(contract) ==
  CASE contract = "daily" -> 100
    [] contract = "weekly" -> 600
    [] OTHER -> 2000

\* offers that carry the sub-url of another page
detail_offers_of_other_page(url, contracts) ==
  [k \in DOMAIN contracts |->
     [url |-> url + 1, contract |-> contracts[k], base_price |-> base_price_of(contracts[k])]]

\* contract_list / enriched of scrape_dubizzle_detail_async: one dict per
\* contract type that shows a price
dubizzle_detail_offers(url, contracts) ==
  [k \in DOMAIN contracts |->
     [url |-> url, contract |-> contracts[k], base_price |-> base_price_of(contracts[k])]]

detail_offers(s, url, content) ==
  IF s = "A" THEN dubizzle_detail_offers(url, content)
  ELSE invygo_detail_offers(url, content)

\* what goto and the readiness poll of one attempt do, whatever the page holds
Transients == {"ok", "nav", "notready"}

attempt_input(tr, found, good) ==
  [nav |-> tr # "nav", ready |-> tr # "notready", found |-> found, good |-> good]

\* the for loop of a retry-wrapped function from iteration `attempt` on
RECURSIVE retry_run(_, _, _)
retry_run(fn, ins, attempt) ==
  LET step == retry_step(attempt, attempt_error(fn, ins[attempt + 1]))
  IN  IF step = "return" THEN [status |-> "returned", attempts |-> attempt + 1]
      ELSE IF step = "raise" THEN [status |-> "raised", attempts |-> attempt + 1]
      ELSE IF attempt + 1 < max_retries THEN retry_run(fn, ins, attempt + 1)
      ELSE [status |-> "fell_through", attempts |-> attempt + 1]

\* how a call can end on a page holding `found` items
ScrapeOutcomes(fn, found) ==
  { retry_run(fn, [i \in 1..max_retries |-> attempt_input(tr[i], found, found)], 0).status :
      tr \in [1..max_retries -> Transients] }

listing_fn(s) == IF s = "A" THEN "A_listing" ELSE "B_listing"
detail_fn(s) == IF s = "A" THEN "A_detail" ELSE "B_detail"

\* df_main of task t: the cards of its page; on site B "contract" is the mode
task_df_main(s, t, cards) ==
  [i \in DOMAIN cards |->
     [url |-> cards[i].url, make |-> cards[i].make, model |-> cards[i].model,
      year |-> cards[i].year, mode |-> IF s = "A" THEN Null ELSE modes[t]]]

RECURSIVE Concat(_, _)
Concat(seqs, i) == IF i > Len(seqs) THEN <<>> ELSE seqs[i] \o Concat(seqs, i + 1)

\* a main without the "No data found" return: whatever was combined is written
save_results_always_writes(s, results) ==
  LET main_rows == Concat([t \in DOMAIN results |-> results[t].main], 1)
      detail_dicts == Concat([t \in DOMAIN results |-> results[t].detail], 1)
      final_df == LeftMerge(s, main_rows, detail_df(s, detail_dicts), 1)
  IN  [status |-> "saved", main_df |-> main_rows,
       output |-> sort_values(s, final_df, Len(final_df))]

\* main from "Combine results" to to_excel: what is written, or why nothing is
save_results(s, results) ==
  LET main_rows == Concat([t \in DOMAIN results |-> results[t].main], 1)
      detail_dicts == Concat([t \in DOMAIN results |-> results[t].detail], 1)
  IN  IF main_rows = <<>>
        THEN [status |-> "empty", main_df |-> <<>>, output |-> <<>>]
      ELSE IF detail_dicts = <<>>
        \* detail_df has no column "sub-url": pd.merge raises KeyError
        THEN [status |-> "fatal", main_df |-> main_rows, output |-> <<>>]
      ELSE LET merged == LeftMerge(s, main_rows, detail_df(s, detail_dicts), 1)
               final_df == [i \in DOMAIN merged |-> cast_categories(s, merged[i])]
           IN  [status |-> "saved", main_df |-> main_rows,
                output |-> sort_values(s, final_df, Len(final_df))]

\* the __main__ block: asyncio.run(main()) inside try; an exception main lets
\* out (the handler clean-up behind its finally) is caught by except Exception
\* and logged as "Script crashed"; there is no sys.exit, the script runs to
\* its end either way
process_exit(main_raised) ==
  IF main_raised
    THEN <<0>>
    ELSE <<0>>

\* every way a call can run on a page holding `found` items: how it ends and
\* after how many attempts (one page.goto each)
ScrapeRuns(fn, found) ==
  { retry_run(fn, [i \in 1..max_retries |-> attempt_input(tr[i], found, found)], 0) :
      tr \in [1..max_retries -> Transients] }

\* a context that hands every task the same page
shared_page(t) == 1

\* context.new_page(): a page of its own for the call of task t
new_page(t) == t

\* a semaphore that never makes a task wait
can_acquire_always(value) == TRUE

\* asyncio.Semaphore: acquire() returns while the value is positive
can_acquire(value) == value > 0

(***************************************************************************)
(* The worlds a run is started in.                                         *)
(***************************************************************************)
k_camry == [make |-> nm_AB, model |-> nm_a_b, year |-> "2022"]
k_civic == [make |-> nm_b, model |-> nm_ab, year |-> "2022"]
rc_camry == [url |-> 1, make |-> nm_ab, model |-> nm_a_sp_b, year |-> "2022"]
rc_civic == [url |-> 2, make |-> nm_b, model |-> nm_ab, year |-> "2022"]

RunCatalogsA == {<<k_camry>>, <<k_civic>>, <<k_camry, k_camry>>, <<k_camry, k_civic>>}
RunPagesA == {<<>>, <<rc_camry>>, <<rc_camry, rc_civic>>}
DetailPoolA == {<<"daily", "weekly">>, <<"weekly", "monthly">>}

WorldsA ==
  UNION { { [script |-> "A", config |-> c, pages |-> pg, details |-> d] :
              pg \in [1..task_count("A", c) -> RunPagesA], d \in [1..2 -> DetailPoolA] } :
          c \in RunCatalogsA }

\* site B: the sub-url names the mode, so the cards of the two pages differ
k_slug == [make |-> nm_ab, model |-> nm_a_b, year |-> "2022"]
rc_slug(t) == [url |-> t, make |-> nm_ab, model |-> nm_a_b, year |-> "2022"]

RunCatalogsB == {<<k_slug>>}
RunPagesB(t) == {<<>>, <<rc_slug(t)>>}
DetailPoolB ==
  { <<[label |-> "1 month", fail |-> "none", nmil |-> 1]>>,
    <<[label |-> "3 months", fail |-> "none", nmil |-> 2],
      [label |-> "1 month", fail |-> "none", nmil |-> 1]>>,
    <<[label |-> "1 month", fail |-> "none", nmil |-> 2],
      [label |-> "1 week", fail |-> "none", nmil |-> 1]>> }

WorldsB ==
  { [script |-> "B", config |-> c, pages |-> <<p1, p2>>, details |-> d] :
      c \in RunCatalogsB, p1 \in RunPagesB(1), p2 \in RunPagesB(2),
      d \in [1..2 -> DetailPoolB] }

\* more (make, model) pairs than pool slots; only the first has a listing
pool_name(i) == [k \in 1..i |-> "b"]
PoolCatalog == [i \in 1..NumPool |-> [make |-> nm_b, model |-> pool_name(i), year |-> "2022"]]
rc_pool == [url |-> 1, make |-> nm_b, model |-> pool_name(1), year |-> "2022"]

WorldsPool ==
  { [script |-> "A", config |-> PoolCatalog,
     pages |-> [t \in 1..NumPool |-> IF t = 1 THEN <<rc_pool>> ELSE <<>>],
     details |-> [u \in 1..2 |-> <<"daily", "weekly">>]] }

Worlds == WorldsA \cup WorldsB \cup WorldsPool

\* the offers of the detail page merged with its listing, cast, sorted:
\* the rows main writes for this page
DetailSave ==
  /\ d_pc = "returned"
  /\ d_pc' = "saved"
  /\ d_output' = save_results("B", <<[main |-> task_df_main("B", 2, <<rc_slug(1)>>),
                                      detail |-> d_enriched]>>).output
  /\ UNCHANGED <<d_controls, d_index, d_seen, d_enriched, d_origin>>
  /\ UNCHANGED <<filterVars, retryVars, runVars, pollVars, schedVars>>

NextDetail == DetailControl \/ DetailReturn \/ DetailSave

SpecDetail == InitDetail /\ [][NextDetail]_vars

InitRun ==
  /\ IdlePoll
  /\ IdleSched
  /\ IdleFilter
  /\ IdleRetry
  /\ IdleDetail
  /\ \E w \in Worlds :
       /\ script = w.script
       /\ config = w.config
       /\ listing_page = w.pages
       /\ detail_page = w.details
  /\ sem = 0
  /\ waiters = <<>>
  /\ pc = [t \in Tasks |-> "created"]
  /\ page = [t \in Tasks |-> "unbound"]
  /\ filtered = [t \in Tasks |-> <<>>]
  /\ idx = [t \in Tasks |-> 0]
  /\ enriched = [t \in Tasks |-> <<>>]
  /\ failed = [t \in Tasks |-> {}]
  /\ ret = [t \in Tasks |-> [main |-> <<>>, detail |-> <<>>]]
  /\ result = [t \in Tasks |-> [main |-> <<>>, detail |-> <<>>]]
  /\ handle = [t \in Tasks |-> 0]
  /\ navigated = [t \in Tasks |-> <<>>]
  /\ flushed = [t \in Tasks |-> 0]
  /\ mainpc = "start"
  /\ status = "none"
  /\ main_df = <<>>
  /\ output = <<>>
  /\ browser = "none"
  /\ exit_status = <<>>

Idle3 == UNCHANGED <<filterVars, retryVars, detailVars, worldVars, pollVars, schedVars>>

LoopRuns == mainpc \in {"gather", "finally"}

\* make_fast_firefox_async fails: the except logs, the finally follows
OpenSessionFails ==
  /\ mainpc = "start"
  /\ mainpc' = "finally"
  /\ status' = "fatal"
  /\ UNCHANGED <<main_df, output, browser, exit_status, taskVars>>
  /\ Idle3

\* the session opens; the semaphore and the tasks are created and gathered;
\* each task runs to its first suspension: the first semaphore_limit tasks
\* get a slot and call context.new_page(), the others queue
Launch ==
  /\ mainpc = "start"
  /\ browser' = "open"
  /\ mainpc' = "gather"
  /\ LET n == task_count(script, config)
         k == IF n < semaphore_limit THEN n ELSE semaphore_limit
     IN  /\ sem' = semaphore_limit - k
         /\ pc' = [t \in Tasks |-> IF t <= k THEN "new_page" ELSE "waiting"]
         /\ waiters' = [i \in 1..(n - k) |-> k + i]
  /\ UNCHANGED <<handle, navigated, flushed, page, filtered, idx, enriched, failed, ret,
                 result, status, main_df, output, exit_status>>
  /\ Idle3

\* a queued task is woken and takes the slot
Acquire(t) ==
  /\ LoopRuns
  /\ waiters # <<>>
  /\ t = Head(waiters)
  /\ can_acquire(sem)
  /\ sem' = sem - 1
  /\ waiters' = Tail(waiters)
  /\ pc' = [pc EXCEPT ![t] = "new_page"]
  /\ UNCHANGED <<handle, navigated, flushed, page, filtered, idx, enriched, failed, ret,
                 result, mainVars>>
  /\ Idle3

\* context.new_page() returns: the listing scrape starts
NewPageOk(t) ==
  /\ LoopRuns
  /\ pc[t] = "new_page"
  /\ page' = [page EXCEPT ![t] = "open"]
  /\ handle' = [handle EXCEPT ![t] = new_page(t)]
  /\ pc' = [pc EXCEPT ![t] = "listing"]
  /\ UNCHANGED <<navigated, flushed, sem, waiters, filtered, idx, enriched, failed, ret,
                 result, mainVars>>
  /\ Idle3

\* context.new_page() raises: the finally reads the unbound name page, so
\* page.close() raises at once, the slot is not released, the log not flushed
NewPageFails(t) ==
  /\ LoopRuns
  /\ pc[t] = "new_page"
  /\ pc' = [pc EXCEPT ![t] = "raised"]
  /\ UNCHANGED <<handle, navigated, flushed, sem, waiters, page, filtered, idx, enriched,
                 failed, ret, result, mainVars>>
  /\ Idle3

\* a task without the except around its scraping: the error of the listing
\* scrape leaves the task
ListingFailureEscapes(t) ==
  /\ LoopRuns
  /\ pc[t] = "listing"
  /\ \E st \in ScrapeOutcomes(listing_fn(script), Len(listing_page[t])) :
       LET df_main == task_df_main(script, t, listing_page[t])
           filtered_df == IF st = "returned" THEN CatalogFilter(script, df_main, config) ELSE <<>>
       IN  IF st = "raised"
             THEN /\ pc' = [pc EXCEPT ![t] = "raised"]
                  /\ UNCHANGED <<filtered, idx, ret>>
           ELSE IF filtered_df # <<>>
             THEN /\ filtered' = [filtered EXCEPT ![t] = filtered_df]
                  /\ idx' = [idx EXCEPT ![t] = 1]
                  /\ pc' = [pc EXCEPT ![t] = "detail"]
                  /\ ret' = ret
             ELSE /\ ret' = [ret EXCEPT ![t] = [main |-> <<>>, detail |-> <<>>]]
                  /\ pc' = [pc EXCEPT ![t] = "closing"]
                  /\ UNCHANGED <<filtered, idx>>
  /\ UNCHANGED <<handle, navigated, flushed, sem, waiters, page, enriched, failed,
                 result, mainVars>>
  /\ Idle3

\* the listing scrape returns or raises; filter; first detail scrape or return
ListingReturn(t) ==
  /\ LoopRuns
  /\ pc[t] = "listing"
  /\ \E st \in ScrapeOutcomes(listing_fn(script), Len(listing_page[t])) :
       LET df_main == task_df_main(script, t, listing_page[t])
           filtered_df == IF st = "returned" THEN CatalogFilter(script, df_main, config) ELSE <<>>
       IN  IF filtered_df # <<>>
             THEN /\ filtered' = [filtered EXCEPT ![t] = filtered_df]
                  /\ idx' = [idx EXCEPT ![t] = 1]
                  /\ pc' = [pc EXCEPT ![t] = "detail"]
                  /\ ret' = ret
             ELSE \* return [], []
                  /\ ret' = [ret EXCEPT ![t] = [main |-> <<>>, detail |-> <<>>]]
                  /\ pc' = [pc EXCEPT ![t] = "closing"]
                  /\ UNCHANGED <<filtered, idx>>
  /\ UNCHANGED <<handle, navigated, flushed, sem, waiters, page, enriched, failed,
                 result, mainVars>>
  /\ Idle3

\* the detail scrape of row idx returns (enriched.extend) or raises (logged,
\* continue); next row, or return [filtered_df], enriched
DetailDone(t) ==
  /\ LoopRuns
  /\ pc[t] = "detail"
  /\ LET row == filtered[t][idx[t]]
         content == detail_page[row.url]
     IN  \E run \in ScrapeRuns(detail_fn(script), Len(content)) :
           LET st == run.status
               enr == IF st = "raised" THEN enriched[t]
                      ELSE enriched[t] \o detail_offers(script, row.url, content)
           IN  /\ enriched' = [enriched EXCEPT ![t] = enr]
               /\ navigated' = [navigated EXCEPT ![t] = @ \o [a \in 1..run.attempts |-> row.url]]
               /\ failed' = [failed EXCEPT ![t] = IF st = "raised" THEN @ \cup {row.url} ELSE @]
               /\ idx' = [idx EXCEPT ![t] = @ + 1]
               /\ IF idx[t] < Len(filtered[t])
                    THEN UNCHANGED <<pc, ret>>
                    ELSE /\ ret' = [ret EXCEPT ![t] = [main |-> filtered[t], detail |-> enr]]
                         /\ pc' = [pc EXCEPT ![t] = "closing"]
  /\ UNCHANGED <<handle, flushed, sem, waiters, page, filtered, result, mainVars>>
  /\ Idle3

\* finally: page.close() returns, semaphore.release(), logger.flush(); the
\* task resolves with its return value
CloseOk(t) ==
  /\ LoopRuns
  /\ pc[t] = "closing"
  /\ page' = [page EXCEPT ![t] = "closed"]
  /\ sem' = sem + 1
  /\ flushed' = [flushed EXCEPT ![t] = @ + 1]
  /\ result' = [result EXCEPT ![t] = ret[t]]
  /\ pc' = [pc EXCEPT ![t] = "done"]
  /\ UNCHANGED <<handle, navigated, waiters, filtered, idx, enriched, failed, ret, mainVars>>
  /\ Idle3

\* finally: page.close() raises: no release, no flush, the task raises
CloseFails(t) ==
  /\ LoopRuns
  /\ pc[t] = "closing"
  /\ pc' = [pc EXCEPT ![t] = "raised"]
  /\ UNCHANGED <<handle, navigated, flushed, sem, waiters, page, filtered, idx, enriched,
                 failed, ret, result, mainVars>>
  /\ Idle3

\* asyncio.gather returns every result: combine, merge, sort, write
GatherReturns ==
  /\ mainpc = "gather"
  /\ \A t \in Tasks : pc[t] = "done"
  /\ LET saved == save_results(script, result)
     IN  /\ status' = saved.status
         /\ main_df' = saved.main_df
         /\ output' = saved.output
  /\ mainpc' = "finally"
  /\ UNCHANGED <<browser, exit_status, taskVars>>
  /\ Idle3

\* asyncio.gather raises the first exception of a task: "Fatal error in main"
GatherRaises ==
  /\ mainpc = "gather"
  /\ \E t \in Tasks : pc[t] = "raised"
  /\ status' = "fatal"
  /\ mainpc' = "finally"
  /\ UNCHANGED <<main_df, output, browser, exit_status, taskVars>>
  /\ Idle3

\* finally of main: context.close(), browser.close(), an exception of either
\* caught and logged; main returns, asyncio.run returns, the event loop stops
\* and the interpreter ends with the status of a script that ran to its end
MainFinally ==
  /\ mainpc = "finally"
  /\ \E closed \in BOOLEAN :
       browser' = IF browser = "open" /\ closed THEN "closed" ELSE browser
  /\ mainpc' = "exit"
  /\ \E main_raised \in BOOLEAN : exit_status' = process_exit(main_raised)
  /\ UNCHANGED <<status, main_df, output, taskVars>>
  /\ Idle3

TaskStep(t) ==
  \/ Acquire(t)
  \/ NewPageOk(t)
  \/ NewPageFails(t)
  \/ ListingReturn(t)
  \/ DetailDone(t)
  \/ CloseOk(t)
  \/ CloseFails(t)

Next ==
  \/ OpenSessionFails
  \/ Launch
  \/ \E t \in Tasks : TaskStep(t)
  \/ GatherReturns
  \/ GatherRaises
  \/ MainFinally

Spec == InitRun /\ [][Next]_vars

(***************************************************************************)
(* SpecFilter: the Catalog Filter applied to any page and any catalog.     *)
(***************************************************************************)
InitFilter ==
  /\ IdleRetry
  /\ IdleDetail
  /\ IdleRun
  /\ IdlePoll
  /\ IdleSched
  /\ f_pc = "scraped"
  /\ f_site \in Sites
  /\ \E cards \in SeqsUpTo(CardPool, MaxCards) : f_main = ListingRows(f_site, cards)
  /\ f_config \in SeqsUpTo(ConfigPool, MaxCat)
  /\ f_filtered = <<>>

ApplyFilter ==
  /\ f_pc = "scraped"
  /\ f_filtered' = CatalogFilter(f_site, f_main, f_config)
  /\ f_pc' = "filtered"
  /\ UNCHANGED <<f_site, f_main, f_config>>
  /\ UNCHANGED <<retryVars, detailVars, runVars, pollVars, schedVars>>

NextFilter == ApplyFilter

SpecFilter == InitFilter /\ [][NextFilter]_vars

(***************************************************************************)
(* The canonical text of a name as section 4.6 states it: upper-cased,     *)
(* after the site's alias rewriting; applied to either side alike.         *)
(***************************************************************************)
canonical(site, name) == str_upper(config_model_alias(site, name))

SameTriplet(site, l, c) ==
  /\ str_upper(l.make) = str_upper(c.make)
  /\ canonical(site, l.model) = canonical(site, c.model)
  /\ l.year = c.year

Survives(i) == \E k \in DOMAIN f_filtered : f_filtered[k].url = f_main[i].url

\* catalog = {(TOYOTA, CAMRY, 2022)}, listings = {TOYOTA/CAMRY/2022, HONDA/CIVIC/2022}
Scenario1 ==
  /\ f_config = <<card_camry>>
  /\ f_main = ListingRows(f_site, <<card_camry, card_civic>>)

(* C6: every row that survives the Catalog Filter comes from an extracted
   listing (same sub-url, its make and model upper-cased, its year) whose
   canonical (make, model, year) equals that of some catalog entry; in
   scenario 1 exactly the one TOYOTA/CAMRY/2022 row survives. *)
C6_FilterSound ==
  f_pc = "filtered" =>
    /\ \A k \in DOMAIN f_filtered :
         \E i \in DOMAIN f_main, j \in DOMAIN f_config :
           /\ f_filtered[k].url = f_main[i].url
           /\ f_filtered[k].make = str_upper(f_main[i].make)
           /\ f_filtered[k].model = str_upper(f_main[i].model)
           /\ f_filtered[k].year = f_main[i].year
           /\ SameTriplet(f_site, f_main[i], f_config[j])
    /\ Scenario1 =>
         /\ Len(f_filtered) = 1
         /\ f_filtered[1].url = 1
         /\ f_filtered[1].make = nm_AB

C6_Witness == f_pc = "filtered" /\ Scenario1 /\ Len(f_filtered) = 1

(* C7: a listing survives the Catalog Filter if and only if its canonical
   (make, model, year) triplet equals that of some catalog entry, the same
   normalization (upper-casing, alias rewriting) being applied to both
   sides.  Stated for pages and catalogs in which no year is missing. *)
C7_FilterExact ==
  (f_pc = "filtered" /\ ~HasNullYear(f_main) /\ ~HasNullYear(f_config)) =>
    \A i \in DOMAIN f_main :
      Survives(i) <=> \E j \in DOMAIN f_config : SameTriplet(f_site, f_main[i], f_config[j])

(***************************************************************************)
(* Properties of one run.                                                  *)
(***************************************************************************)
\* between semaphore.acquire() and the end of the task's finally
InSlot(t) == pc[t] \in {"new_page", "listing", "detail", "closing"}

\* ended without semaphore.release()
Leaked(t) == pc[t] = "raised"

Launched == \A t \in Tasks : pc[t] # "created"

Resolved(t) == pc[t] \in {"done", "raised"}

UrlInOutput(u) == \E k \in DOMAIN output : output[k].url = u

(* C1: at every moment at most 5 tasks are between acquiring and releasing
   a pool slot, however many tasks the run launched; a further task waits:
   the free slots are never negative, and the free slots and the slots taken
   and not released always add up to 5. *)
C1_AtMostFiveInSlot ==
  /\ Cardinality({t \in Tasks : InSlot(t)}) <= semaphore_limit
  /\ sem >= 0
  /\ Launched => sem + Cardinality({t \in Tasks : InSlot(t) \/ Leaked(t)}) = semaphore_limit

\* more tasks than slots: a queued task got the slot another task released
C1_Witness ==
  /\ \E t \in Tasks : t > semaphore_limit /\ InSlot(t)
  /\ \E t \in Tasks : pc[t] = "done"
  /\ Cardinality({t \in Tasks : InSlot(t)}) = semaphore_limit

(* C2: the orchestrator leaves its wait for the tasks (towards aggregation
   or towards its exit) only after every launched task has resolved,
   whatever way a task failed. *)
C2_WaitsForEveryTask ==
  (Launched /\ mainpc \in {"finally", "exit"}) => \A t \in Tasks : Resolved(t)

(* C4: when the run has ended and every task returned, every Listing a task
   returned appears in at least one row of the output table, also when no
   task produced any ContractOffer. *)
C4_EveryListingInOutput ==
  (mainpc = "exit" /\ \A t \in Tasks : pc[t] = "done") =>
    \A t \in Tasks : \A i \in DOMAIN result[t].main : UrlInOutput(result[t].main[i].url)

(* C5: the sub-urls of the Listings aggregated over all tasks of a run are
   pairwise distinct. *)
C5_SubUrlsDistinct ==
  \A i, j \in DOMAIN main_df : i # j => main_df[i].url # main_df[j].url

\* rank of a contract type: daily < weekly < monthly; a row without one is last
offer_rank(c) ==
  CASE c = "daily" -> 1
    [] c = "weekly" -> 2
    [] c = "monthly" -> 3
    [] OTHER -> 4

\* a detail page yields daily(100) and weekly(600)
Scenario2 ==
  /\ script = "A"
  /\ config = <<k_camry>>
  /\ listing_page = <<(<<rc_camry>>)>>
  /\ detail_page[1] = <<"daily", "weekly">>
  /\ enriched[1] = dubizzle_detail_offers(1, detail_page[1])

(* C8: the rows of the written table are non-decreasing by contract rank
   (daily < weekly < monthly, rows without a contract last) and, among rows
   of equal rank, non-decreasing by sub-url; in scenario 2 the table has two
   rows, daily (100) before weekly (600). *)
C8_SortedByContractThenUrl ==
  status = "saved" =>
    /\ \A i, j \in DOMAIN output :
         i < j =>
           \/ offer_rank(output[i].contract) < offer_rank(output[j].contract)
           \/ /\ offer_rank(output[i].contract) = offer_rank(output[j].contract)
              /\ output[i].url <= output[j].url
    /\ Scenario2 =>
         /\ Len(output) = 2
         /\ output[1].contract = "daily" /\ output[1].offered_price = Num(100)
         /\ output[2].contract = "weekly" /\ output[2].offered_price = Num(600)

C8_Witness == status = "saved" /\ Scenario2 /\ Len(output) = 2

(* C10: when the run has ended and every task returned, a listing whose
   detail scrape failed on all its attempts has a row in the output table. *)
C10_FailedDetailKept ==
  (mainpc = "exit" /\ \A t \in Tasks : pc[t] = "done") =>
    \A t \in Tasks : \A u \in failed[t] :
      /\ \E i \in DOMAIN result[t].main : result[t].main[i].url = u
      /\ UrlInOutput(u)

(***************************************************************************)
(* Properties of the end of a run.                                         *)
(***************************************************************************)
NoSurvivor == \A t \in Tasks : filtered[t] = <<>>

(* C11: when no listing survives the Catalog Filter in any task (every page
   is filtered empty or every listing phase failed), no output table is
   written: the run never counts as saved and, once every task returned and
   the results were combined, it is the empty run. *)
C11_EmptyRunWritesNothing ==
  NoSurvivor =>
    /\ output = <<>>
    /\ status # "saved"
    /\ (mainpc \in {"finally", "exit"} /\ \A t \in Tasks : pc[t] = "done") => status = "empty"

\* every task returned, a page showed a card, the filter left none
C11_Witness ==
  /\ mainpc = "exit"
  /\ status = "empty"
  /\ \A t \in Tasks : pc[t] = "done"
  /\ \E t \in Tasks : listing_page[t] # <<>>

(* C12: a run that ends on a fatal condition (empty run, session failure,
   error of a task, of the merge or of the write) ends the process with a
   non-zero exit status. *)
C12_FatalExitsNonZero ==
  (mainpc = "exit" /\ status \in {"empty", "fatal"}) => exit_status # <<0>>

\* the offer columns of a row of the table are those derived from offer o
RowOfOffer(r, o) ==
  LET d == derive_prices(script, o)
  IN  /\ r.url = d.url
      /\ r.duration = d.duration
      /\ r.mileage = d.mileage
      /\ r.base_price = d.base_price
      /\ r.savings = d.savings
      /\ r.offered_price = d.offered_price
      /\ script = "A" => r.contract = d.contract

(* C13: whenever the table is written, every ContractOffer returned by a
   task appears in at least one row of it, with the listing it belongs to. *)
C13_NoOfferDropped ==
  status = "saved" =>
    \A t \in Tasks : \A k \in DOMAIN result[t].detail :
      \E i \in DOMAIN output : RowOfOffer(output[i], result[t].detail[k])

\* a written table for a listing with two offers
C13_Witness ==
  /\ status = "saved"
  /\ \E t \in Tasks : Len(result[t].detail) >= 2 /\ Len(result[t].main) = 1

(* C14: orphaned offers are impossible: every offer a task has collected,
   returns or has returned carries the sub-url of one of the filtered
   Listings of that task, and at merge time every offer has the sub-url of
   a Listing of the aggregated Listing set. *)
C14_NoOrphanOffer ==
  /\ \A t \in Tasks :
       /\ \A k \in DOMAIN enriched[t] : \E i \in DOMAIN filtered[t] : filtered[t][i].url = enriched[t][k].url
       /\ \A k \in DOMAIN ret[t].detail : \E i \in DOMAIN ret[t].main : ret[t].main[i].url = ret[t].detail[k].url
       /\ \A k \in DOMAIN result[t].detail :
            \E i \in DOMAIN result[t].main : result[t].main[i].url = result[t].detail[k].url
  /\ (status \in {"saved", "fatal"} /\ \A t \in Tasks : pc[t] = "done") =>
       \A t \in Tasks : \A k \in DOMAIN result[t].detail :
         \E i \in DOMAIN main_df : main_df[i].url = result[t].detail[k].url

\* two tasks returned offers and the table was written
C14_Witness ==
  /\ status = "saved"
  /\ \E t, u \in Tasks : t # u /\ result[t].detail # <<>> /\ result[u].detail # <<>>

(* C15: after the exit of a run no opened browser is left unclosed. *)
C15_BrowserClosedAtExit ==
  mainpc = "exit" => browser # "open"

(***************************************************************************)
(* Progress of a run.  The event loop runs every callback that is ready:   *)
(* a step of main or of a task that stays possible is eventually taken.    *)
(* Every page operation returns or fails: no step waits for ever on the    *)
(* site.                                                                   *)
(***************************************************************************)
MainStep == OpenSessionFails \/ Launch \/ GatherReturns \/ GatherRaises \/ MainFinally

SpecLive ==
  /\ InitRun
  /\ [][Next]_vars
  /\ WF_vars(MainStep)
  /\ \A n \in 1..NumPool : WF_vars(n \in Tasks /\ TaskStep(n))

(* C16: every launched task eventually resolves (having acquired a slot),
   also when more tasks than slots were launched. *)
C16_EveryTaskResolves ==
  (mainpc = "gather") ~> (\A t \in Tasks : Resolved(t))

(***************************************************************************)
(* Properties of the end of a retry-wrapped scrape.                        *)
(***************************************************************************)
DetailFns == RetryFns \ ListingFns

(* C17: when the third attempt of a retry-wrapped scrape fails, the error of
   that attempt is raised to the caller: the call neither sleeps again, nor
   falls out of the loop into the empty result behind it, nor returns; a
   call that returns does so from an attempt without an error. *)
C17_ExhaustionPropagates ==
  /\ (r_attempts = 3 /\ r_err # Null) => r_pc = "raised"
  /\ r_pc \notin {"fell_through"}
  /\ r_pc = "returned" => r_err = Null

C17_Witness ==
  /\ r_fn \in DetailFns
  /\ r_pc = "raised"
  /\ r_err = "ContentNotReady"
  /\ r_attempts = 3

(* C18: a detail-page scrape never returns an empty list of ContractOffers:
   an attempt that produced none is a failed attempt. *)
C18_EmptyDetailIsFailure ==
  (r_pc = "returned" /\ r_fn \in DetailFns) => r_items > 0

(* C19: a listing-page scrape that returns carries at least one Listing: an
   attempt that extracted none is a failed attempt. *)
C19_EmptyListingIsFailure ==
  (r_fn \in ListingFns /\ r_pc = "returned") => r_items >= 1

(***************************************************************************)
(* Properties of a task whose listing phase fails.                         *)
(***************************************************************************)
EmptyResult == [main |-> <<>>, detail |-> <<>>]

\* the results of the run without task t
Without(results, t) ==
  [i \in 1..(Len(results) - 1) |-> IF i < t THEN results[i] ELSE results[i + 1]]

(* C20: the error of a listing scrape never leaves the task: from its
   listing phase a task goes on to its detail phase or to the close of its
   page, never to a raised end; a task that leaves the listing phase
   without a surviving listing returns zero Listings and zero
   ContractOffers and has fetched no detail page; a task whose listing page
   shows no card (its scrape fails on every attempt) never fetches a detail
   page, resolves with the empty result when its page closes, and the table
   written is the one the other tasks' results give without it. *)
C20_ListingFailureContained ==
  [][\A t \in Tasks :
       /\ pc[t] = "listing" => pc'[t] \in {"listing", "detail", "closing"}
       /\ (pc[t] = "listing" /\ pc'[t] = "closing") =>
            /\ ret'[t] = EmptyResult
            /\ idx'[t] = 0
            /\ enriched'[t] = <<>>
       /\ listing_page[t] = <<>> =>
            /\ pc'[t] # "detail"
            /\ pc'[t] = "done" => result'[t] = EmptyResult
            /\ status' = "saved" =>
                 output' = save_results(script, Without(result', t)).output
    ]_vars

\* a task whose page shows no card has resolved and a sibling's rows are written
C20_Witness ==
  /\ status = "saved"
  /\ \E t \in Tasks : listing_page[t] = <<>> /\ pc[t] = "done" /\ result[t] = EmptyResult

(***************************************************************************)
(* Properties of the steps of a task.                                      *)
(***************************************************************************)
\* how many detail navigations task t made to sub-url u
NavCount(t, u) == Cardinality({k \in DOMAIN navigated[t] : navigated[t][k] = u})

SurvivorUrls(t) == {filtered[t][i].url : i \in DOMAIN filtered[t]}

DetailLoopOver(t) == filtered[t] # <<>> /\ idx[t] > Len(filtered[t])

(* C21: a task navigates to a detail page only after its listing extraction
   and Catalog Filter, and only for the sub-url of a Listing that survived
   the filter; a discarded Listing causes no detail navigation; once the
   detail loop of the task is over, every surviving Listing has caused
   between 1 and 3 detail navigations. *)
C21_DetailOnlyForSurvivors ==
  \A t \in Tasks :
    /\ navigated[t] # <<>> => pc[t] \notin {"created", "waiting", "new_page", "listing"}
    /\ \A k \in DOMAIN navigated[t] : navigated[t][k] \in SurvivorUrls(t)
    /\ \A i \in DOMAIN listing_page[t] :
         listing_page[t][i].url \notin SurvivorUrls(t) => NavCount(t, listing_page[t][i].url) = 0
    /\ DetailLoopOver(t) =>
         \A u \in SurvivorUrls(t) : NavCount(t, u) >= 1 /\ NavCount(t, u) <= 3

(* C23: once every task has resolved, every slot taken has been released and
   every page closed: 5 slots are free and no task is left with a slot or
   an open page. *)
C23_SlotsAndPagesReleased ==
  (Launched /\ \A t \in Tasks : Resolved(t)) =>
    /\ sem = semaphore_limit
    /\ \A t \in Tasks : page[t] = "closed"

(* C24: the buffered log of a task that has resolved, by a return or by an
   error, has been flushed exactly once. *)
C24_LogFlushedOnce ==
  \A t \in Tasks : Resolved(t) => flushed[t] = 1

Navigating(t) == pc[t] \in {"listing", "detail"}

(* C25: a task that navigates does so on its own open page, no two tasks
   have the same page, a task without a page navigates nothing, and a task
   in its detail phase works on exactly one row of its filtered Listings. *)
C25_OwnPageOneNavigation ==
  /\ \A t \in Tasks :
       /\ Navigating(t) => page[t] = "open" /\ handle[t] # 0
       /\ page[t] = "unbound" <=> handle[t] = 0
       /\ pc[t] = "detail" => idx[t] \in DOMAIN filtered[t]
       /\ pc[t] = "listing" => idx[t] = 0 /\ navigated[t] = <<>>
  /\ \A t, u \in Tasks : (t # u /\ handle[t] # 0 /\ handle[u] # 0) => handle[t] # handle[u]

\* two tasks navigate at the same time, each on its page
C25_Witness ==
  \E t, u \in Tasks : t # u /\ pc[t] = "detail" /\ Navigating(u) /\ handle[t] # handle[u]

(***************************************************************************)
(* Content Readiness Poller: wait_until_listing_card_populated and         *)
(* wait_until_detail_card_populated of both sites.                         *)
(***************************************************************************)
\* max_tries=10
max_tries == 10

\* the read of the page region sits in a try with a bare except
guarded_read(fn) == fn # "A_listing"

\* what the read of the region gives
Reads == {"marker", "no_marker", "raises"}

InitPoll ==
  /\ IdleFilter
  /\ IdleRetry
  /\ IdleDetail
  /\ IdleRun
  /\ IdleSched
  /\ p_fn \in RetryFns
  /\ p_pc = "check"
  /\ p_tries = 0
  /\ p_checks = 0
  /\ p_result = Null

\* inner_html() of the region and the test for the marker
PollCheck ==
  /\ p_pc = "check"
  /\ p_checks' = p_checks + 1
  /\ \E read \in Reads :
       CASE read = "marker" -> p_pc' = "returned" /\ p_result' = "true"
         [] read = "no_marker" -> p_pc' = "nudge" /\ p_result' = p_result
         [] OTHER -> /\ p_pc' = IF guarded_read(p_fn) THEN "nudge" ELSE "raised"
                     /\ p_result' = p_result
  /\ UNCHANGED <<p_fn, p_tries>>
  /\ UNCHANGED <<filterVars, retryVars, detailVars, runVars, schedVars>>

\* page.mouse.wheel(0, 1000), outside the try
PollNudge ==
  /\ p_pc = "nudge"
  /\ \E wheel_ok \in BOOLEAN : p_pc' = IF wheel_ok THEN "sleep" ELSE "raised"
  /\ UNCHANGED <<p_fn, p_tries, p_checks, p_result>>
  /\ UNCHANGED <<filterVars, retryVars, detailVars, runVars, schedVars>>

\* asyncio.sleep(delay); next iteration of the for, or return False
PollSleep ==
  /\ p_pc = "sleep"
  /\ p_tries' = p_tries + 1
  /\ IF p_tries + 1 < max_tries
       THEN p_pc' = "check" /\ p_result' = p_result
       ELSE p_pc' = "returned" /\ p_result' = "false"
  /\ UNCHANGED <<p_fn, p_checks>>
  /\ UNCHANGED <<filterVars, retryVars, detailVars, runVars, schedVars>>

NextPoll == PollCheck \/ PollNudge \/ PollSleep

SpecPoll == InitPoll /\ [][NextPoll]_vars

(* C22: a Content Readiness Poller makes at most 10 checks, returns true at
   the check that finds the marker, returns false only after 10 checks
   without it, and never raises. *)
C22_PollerNeverRaises ==
  /\ p_checks <= 10
  /\ p_pc # "raised"
  /\ (p_pc = "returned" /\ p_result = "false") => p_checks = 10
  /\ p_pc = "returned" => p_result \in {"true", "false"}

(***************************************************************************)
(* Properties of the extraction of a listing page.                         *)
(***************************************************************************)
RowsOf(rows) == {rows[k] : k \in DOMAIN rows}

(* C26: on a listing page that loaded and shows cards, the attempt returns:
   a card whose processing throws is skipped with one warning in the task
   log, and the Listings of all other cards are returned, in page order, by
   the same attempt. *)
C26_BadCardSkipped ==
  (r_fn \in ListingFns /\ r_loaded /\ r_cards # <<>>) =>
    /\ r_pc = "returned"
    /\ r_err = Null
    /\ \A i \in DOMAIN r_cards : r_cards[i] = "ok" <=> i \in RowsOf(r_rows)
    /\ \A k \in DOMAIN r_rows : \A m \in DOMAIN r_rows : k < m => r_rows[k] < r_rows[m]
    /\ r_warnings = Cardinality({i \in DOMAIN r_cards : r_cards[i] = "throws"})
    /\ r_items = Len(r_rows)

\* a page of two cards, the first throwing: the second is returned
C26_Witness ==
  /\ r_fn \in ListingFns
  /\ r_pc = "returned"
  /\ r_cards = <<"throws", "ok">>
  /\ r_rows = <<2>>
  /\ r_warnings = 1

(***************************************************************************)
(* Properties of the table of the interactive site and of the prices.      *)
(***************************************************************************)
\* business order of the duration labels
tier_rank(d) ==
  CASE d = "1 week" -> 1
    [] d = "1 month" -> 2
    [] d = "3 months" -> 3
    [] d = "6 months" -> 4
    [] d = "9 months" -> 5

HasOffer(r) == r.duration # Null

(* C27: in the written table of the interactive site, of two rows with the
   same contract and the same sub-url the earlier has the lower duration
   rank (1 week < 1 month < 3 months < 6 months < 9 months) or the same
   duration and a mileage that is not greater. *)
C27_SortedByDurationThenMileage ==
  (script = "B" /\ status = "saved") =>
    \A i, j \in DOMAIN output :
      (/\ i < j
       /\ output[i].contract = output[j].contract
       /\ output[i].url = output[j].url
       /\ HasOffer(output[i])
       /\ HasOffer(output[j])) =>
        \/ tier_rank(output[i].duration) < tier_rank(output[j].duration)
        \/ /\ output[i].duration = output[j].duration
           /\ output[i].mileage[1] <= output[j].mileage[1]

\* a page listing 1 month (two mileage options) before 1 week: the week comes first
C27_Witness ==
  /\ script = "B"
  /\ status = "saved"
  /\ \E i \in DOMAIN output :
       /\ i + 2 \in DOMAIN output
       /\ output[i].duration = "1 week"
       /\ output[i + 1].duration = "1 month" /\ output[i + 1].url = output[i].url
       /\ output[i + 2].duration = "1 month" /\ output[i + 2].url = output[i].url
       /\ output[i + 1].mileage = Num(1)
       /\ output[i + 2].mileage = Num(2)

\* the leading integer of a duration label
leading_int(d) ==
  CASE d = "1 week" -> 1
    [] d = "1 month" -> 1
    [] d = "3 months" -> 3
    [] d = "6 months" -> 6
    [] d = "9 months" -> 9

\* row r carries offer o of the interactive site with the prices derived from
\* p = o.offered_price, s = o.savings, n = leading_int(o.duration),
\* m = o.mileage_numeric: offered_price = p + m, n * base_price = n * (p + m) + s
InteractivePrices(r, o) ==
  /\ r.url = o.url
  /\ r.duration = o.duration
  /\ r.mileage = Num(o.mileage)
  /\ r.offered_price = Num(o.offered_price + o.mileage_numeric)
  /\ r.base_price[1].den = leading_int(o.duration)
  /\ r.base_price[1].num =
       leading_int(o.duration) * (o.offered_price + o.mileage_numeric) + o.savings

\* row r carries offer o of the static site: savings = 0, offered_price = base_price
StaticPrices(r, o) ==
  /\ r.url = o.url
  /\ r.contract = o.contract
  /\ r.savings = Num(0)
  /\ r.offered_price = Num(o.base_price)
  /\ r.base_price[1].num = r.offered_price[1] * r.base_price[1].den

(* C28: every offer a task returned is written with the derived prices:
   interactive site offered_price = p + m and base_price = p + s/n + m,
   static site savings = 0 and offered_price = base_price; and no written
   row with an offer has other prices. *)
C28_PriceDerivation ==
  status = "saved" =>
    /\ \A t \in Tasks : \A k \in DOMAIN result[t].detail :
         \E i \in DOMAIN output :
           IF script = "B" THEN InteractivePrices(output[i], result[t].detail[k])
           ELSE StaticPrices(output[i], result[t].detail[k])
    /\ \A i \in DOMAIN output :
         output[i].offered_price # NaN =>
           \E t \in Tasks : \E k \in DOMAIN result[t].detail :
             IF script = "B" THEN InteractivePrices(output[i], result[t].detail[k])
             ELSE StaticPrices(output[i], result[t].detail[k])

\* 3 months at 2700 with a saving of 300 and the second mileage option (+100):
\* offered_price 2800, base_price 2900
C28_Witness ==
  /\ script = "B"
  /\ status = "saved"
  /\ \E i \in DOMAIN output :
       /\ output[i].duration = "3 months"
       /\ output[i].savings = Num(300)
       /\ output[i].offered_price = Num(2800)
       /\ output[i].base_price = Num([num |-> 8700, den |-> 3])

(***************************************************************************)
(* Properties of what a task returns and of the join.                      *)
(***************************************************************************)
\* the (make, model) pair task t of site A was created for
task_pair(t) == unique_config(config, 1)[t]

(* C29: every Listing a site-A task returns has the make and the model of
   the pair the task was created for. *)
C29_TaskReturnsOwnPair ==
  script = "A" =>
    \A t \in Tasks : \A i \in DOMAIN result[t].main :
      /\ str_upper(result[t].main[i].make) = str_upper(task_pair(t).make)
      /\ canonical("A", result[t].main[i].model) = canonical("A", task_pair(t).model)

(* C30: whenever the table is written, each ContractOffer a task returned
   is found in exactly one of its rows. *)
C30_OfferInExactlyOneRow ==
  status = "saved" =>
    \A t \in Tasks : \A k \in DOMAIN result[t].detail :
      Cardinality({i \in DOMAIN output : RowOfOffer(output[i], result[t].detail[k])}) = 1

(***************************************************************************)
(* Properties of the labels seen on an interactive detail page.            *)
(***************************************************************************)
\* control i reads its label, throws nowhere and lists a mileage option
Readable(i) == d_controls[i].fail = "none" /\ d_controls[i].nmil >= 1

(* C32: when the loop over the controls is over, a label whose first
   control failed after the label was read, and which a later control
   carries readably, has offers: the failed control did not mark the label
   as seen. *)
C32_SeenOnlyWithOffers ==
  d_pc # "loop" =>
    \A i, j \in DOMAIN d_controls :
      (/\ i < j
       /\ d_controls[i].fail = "price"
       /\ d_controls[j].label = d_controls[i].label
       /\ Readable(j)) => OffersOf(d_controls[i].label) # {}

(* C31: every offer row written for an interactive detail page carries the
   duration label scraped for it: each offer of the page is found in the
   written rows with its mileage and its label, and no written row with an
   offer lacks its label. *)
C31_DurationLabelKept ==
  d_pc = "saved" =>
    /\ \A k \in DOMAIN d_enriched :
         \E i \in DOMAIN d_output :
           /\ d_output[i].mileage = Num(d_enriched[k].mileage)
           /\ d_output[i].duration = d_enriched[k].duration
    /\ \A i \in DOMAIN d_output : d_output[i].mileage # NaN => d_output[i].duration # Null

(***************************************************************************)
(* One scheduled run of the outer scheduler: run_scrapers of               *)
(* auto_scraper.py, with the e-mail it sends.                              *)
(***************************************************************************)
\* the times of day at which schedule_scrapers registers job()
job_times == <<"09:00", "15:00">>

\* CONFIG['scripts'], in the order of the dict
scripts == <<"dubizzle", "invygo">>

\* CONFIG['output_files']
output_files == <<"output/dubizzle_rentals.xlsx", "output/invygo_rentals.xlsx">>

\* the file a script writes when it saves a table
output_file(name) ==
  IF name = "dubizzle" THEN output_files[1] ELSE output_files[2]

\* the exit statuses of a child process: zero, and a non-zero one
ExitCodes == {0, 1}

\* an e-mail for a run in which no script succeeded
should_send_always(executed) == TRUE

\* `if executed:`
should_send(executed) == executed # <<>>

\* the files of the list that exist, in the order of the list
RECURSIVE existing(_, _)
existing(files, present) ==
  IF files = <<>> THEN <<>>
  ELSE IF Head(files) \in present
       THEN <<Head(files)>> \o existing(Tail(files), present)
       ELSE existing(Tail(files), present)

\* the message is built with the existing files attached, then handed to
\* the SMTP server; any exception is logged and swallowed
send_email_with_attachments(files, present, smtp_ok) ==
  IF smtp_ok THEN [mail |-> "sent", attached |-> existing(files, present)]
  ELSE [mail |-> "failed", attached |-> <<>>]

InitSched ==
  /\ IdleFilter
  /\ IdleRetry
  /\ IdleDetail
  /\ IdleRun
  /\ IdlePoll
  /\ s_pc = "idle"
  /\ s_catalog \in BOOLEAN
  /\ s_files \in SUBSET {output_files[1], output_files[2]}
  /\ s_started = <<>>
  /\ s_active = {}
  /\ s_exits = <<>>
  /\ s_executed = <<>>
  /\ s_mail = "none"
  /\ s_attached = <<>>
  /\ s_fatal = FALSE
  /\ s_job = 0

SchedFrame == UNCHANGED <<filterVars, retryVars, detailVars, runVars, pollVars>>

\* run_pending fires the next job of the day; job() calls run_scrapers,
\* which starts with an empty `executed` and returns at once without the
\* catalog file
Job ==
  /\ s_pc \in {"idle", "done"}
  /\ s_job < Len(job_times)
  /\ s_job' = s_job + 1
  /\ s_started' = <<>>
  /\ s_exits' = <<>>
  /\ s_executed' = <<>>
  /\ s_mail' = "none"
  /\ s_attached' = <<>>
  /\ s_fatal' = FALSE
  /\ s_pc' = IF s_catalog THEN "loop" ELSE "done"
  /\ UNCHANGED <<s_catalog, s_files, s_active>>
  /\ SchedFrame

\* subprocess.run starts the next script of the dict
ScriptStart ==
  /\ s_pc = "loop"
  /\ Len(s_started) < Len(scripts)
  /\ LET name == scripts[Len(s_started) + 1]
     IN  /\ s_started' = Append(s_started, name)
         /\ s_active' = s_active \cup {name}
  /\ s_pc' = "running"
  /\ UNCHANGED <<s_catalog, s_files, s_exits, s_executed, s_mail, s_attached,
                 s_fatal, s_job>>
  /\ SchedFrame

\* subprocess.run cannot start the child (OSError): the outer except logs
\* the error and run_scrapers returns
ScriptStartFails ==
  /\ s_pc = "loop"
  /\ Len(s_started) < Len(scripts)
  /\ s_fatal' = TRUE
  /\ s_pc' = "done"
  /\ UNCHANGED <<s_catalog, s_files, s_started, s_active, s_exits, s_executed,
                 s_mail, s_attached, s_job>>
  /\ SchedFrame

\* the child exits; subprocess.run returns on status zero and raises
\* CalledProcessError otherwise, which the inner except logs
ScriptExit ==
  /\ s_pc = "running"
  /\ \E code \in ExitCodes, wrote \in BOOLEAN :
       LET name == s_started[Len(s_started)]
       IN  /\ code # 0 => ~wrote
           /\ s_active' = s_active \ {name}
           /\ s_exits' = Append(s_exits, code)
           /\ s_executed' = IF code = 0 THEN Append(s_executed, name) ELSE s_executed
           /\ s_files' = IF wrote THEN s_files \cup {output_file(name)} ELSE s_files
  /\ s_pc' = "loop"
  /\ UNCHANGED <<s_catalog, s_started, s_mail, s_attached, s_fatal, s_job>>
  /\ SchedFrame

\* after the loop: the e-mail, or the warning that nothing ran
SendEmail ==
  /\ s_pc = "loop"
  /\ Len(s_started) = Len(scripts)
  /\ IF should_send(s_executed)
     THEN \E smtp_ok \in BOOLEAN :
            LET sent == send_email_with_attachments(output_files, s_files, smtp_ok)
            IN  /\ s_mail' = sent.mail
                /\ s_attached' = sent.attached
     ELSE UNCHANGED <<s_mail, s_attached>>
  /\ s_pc' = "done"
  /\ UNCHANGED <<s_catalog, s_files, s_started, s_active, s_exits, s_executed,
                 s_fatal, s_job>>
  /\ SchedFrame

NextSched == Job \/ ScriptStart \/ ScriptStartFails \/ ScriptExit \/ SendEmail

SpecSched == InitSched /\ [][NextSched]_vars

\* some script of the run exited with status zero
SomeZeroExit == \E i \in DOMAIN s_exits : s_exits[i] = 0

\* the scripts started so far are the first ones of the dict, in its order
StartedInOrder ==
  /\ Len(s_started) <= Len(scripts)
  /\ \A i \in DOMAIN s_started : s_started[i] = scripts[i]

\* at most one script runs, and only after every earlier one has exited
OneAtATime ==
  /\ Cardinality(s_active) <= 1
  /\ Len(s_started) - Len(s_exits) = Cardinality(s_active)

(* C33 as stated: the scripts run one after another, a non-zero exit does
   not keep the remaining scripts from running, the e-mail is sent exactly
   when some script exited with status zero, and without the catalog file
   no script runs and no e-mail is sent. *)
C33_MailIffZeroExit ==
  /\ StartedInOrder /\ OneAtATime
  /\ s_pc = "done" =>
       /\ (s_exits # <<>> /\ s_exits[1] # 0 /\ ~s_fatal) => Len(s_started) = Len(scripts)
       /\ s_mail = "sent" <=> SomeZeroExit
       /\ ~s_catalog => s_started = <<>> /\ s_mail = "none"

(* C33, amended: the scripts run one after another; a script that exits
   with non-zero status is followed by the next script unless that one
   cannot be started; sending the e-mail is attempted exactly when every
   script was started and some script exited with status zero, and the
   e-mail is sent only if that attempt succeeds; without the catalog file
   no script runs and no e-mail is attempted. *)
C33_MailAttemptedIffZeroExit ==
  /\ StartedInOrder /\ OneAtATime
  /\ s_pc = "done" =>
       /\ (s_catalog /\ ~s_fatal) => Len(s_exits) = Len(scripts)
       /\ s_mail # "none" <=> (SomeZeroExit /\ ~s_fatal)
       /\ s_fatal => Len(s_started) < Len(scripts)
       /\ ~s_catalog => s_started = <<>> /\ s_mail = "none"
  /\ s_mail = "sent" => SomeZeroExit /\ Len(s_exits) = Len(scripts)

\* the first script exited non-zero, the second ran and exited zero, and
\* the e-mail went out
C33_Witness ==
  /\ s_pc = "done"
  /\ s_job >= 1
  /\ s_exits = <<1, 0>>
  /\ s_executed = <<"invygo">>
  /\ s_mail = "sent"

============================================================================
